---- MODULE Spec2Model ----
(***************************************************************************)
(* Configuration session state machine of IOSXRRPCDriver                   *)
(* (src/napalm_iosxr_rpc/iosxr_rpc.py).                                    *)
(*                                                                         *)
(* Every driver instance (a "session") owns the flag _locked, the option   *)
(* _config_lock and a device handle _dev.  All sessions talk to the same   *)
(* device, whose configuration database has one lock and one candidate.    *)
(* One action models one whole method call: the RPCs it issues, in order,  *)
(* with the outcome the device gives to each, and the exception the call   *)
(* surfaces to its caller.  The record `last` keeps what the most recent   *)
(* call did, so that properties can speak about calls.                     *)
(*                                                                         *)
(* The device library (iosxr_eznc) is outside the repository.  Each of its *)
(* calls either returns or raises the exception class the driver's except  *)
(* clause names for it (commit and discard_config, which have no except    *)
(* clause, raise an error that passes through as it is; compare_config and *)
(* get return what the device answers).  The device                        *)
(* grants its lock to one session at a time and frees the lock of a        *)
(* session whose connection ends.  Methods that issue RPCs are called on a *)
(* connected session, open() on a session that is not connected.           *)
(*                                                                         *)
(* The second part models what the getters make of a reply tree.  Python   *)
(* values are tagged records (None, str, dict, list); a collection field   *)
(* of a reply holds a list of nodes or, when the device has exactly one,   *)
(* the node itself.  Lists are keyed as their YANG lists are: no two nodes *)
(* of a list have the same name.  SpecNorm takes a reply and applies a     *)
(* getter to it.                                                           *)
(***************************************************************************)
EXTENDS Integers, Sequences, FiniteSets, TLC

\* ------------------------------------------------------------------ bounds
\* Number of method calls explored in one behaviour.
MaxCalls == 4

\* Driver instances opened against the one device.
NumSessions == 2

Sessions == 1..NumSessions

\* The value of db_lock_owner when no session holds the database lock.
NoSession == CHOOSE n \in 0..NumSessions : n \notin Sessions

\* --------------------------------------------------------------- variables
VARIABLES
    _locked,        \* [Sessions -> BOOLEAN]  self._locked
    _config_lock,   \* [Sessions -> BOOLEAN]  self._config_lock (TRUE: eager)
    dev_connected,  \* [Sessions -> BOOLEAN]  self._dev has an open connection
    db_lock_owner,  \* device: the session holding the configuration lock
    db_candidate,   \* device: the staged candidate ("none", "merge", "replace")
    nLockOk,        \* [Sessions -> Nat]  lock RPCs that succeeded
    nUnlockOk,      \* [Sessions -> Nat]  unlock RPCs that succeeded
    ncalls,         \* method calls made so far
    last,           \* the most recent call: session, method, RPCs, exception
    prev,           \* the call before the most recent one
    reply,          \* the tree a get RPC answered, with the clock of the call
    result          \* what the getter made of the reply: value or exception

vars == << _locked, _config_lock, dev_connected, db_lock_owner, db_candidate,
           nLockOk, nUnlockOk, ncalls, last, prev, reply, result >>

\* ------------------------------------------------------------ RPC outcomes
\* One RPC as the device saw it: its name, its argument, its outcome.
Rpc(name, arg, res) == [rpc |-> name, arg |-> arg, res |-> res]

\* The result of a method, or of a part of one: the session's flag, the
\* device's lock owner, the RPCs issued and the exception raised ("none").
Result(lk, own, rpcs, raised) ==
    [locked |-> lk, owner |-> own, rpcs |-> rpcs, raised |-> raised]

\* self._dev.open(): the connect errors open() names in its except clause.
\* XRConnectAuthError is bound to ConnectError by the import.
ConnectOutcomes ==
    {"ok", "ConnectError", "ConnectUnknownHostError", "ConnectionClosedError"}

\* self._dev.rpc.lock(): the device grants the lock only when it is free.
LockOutcomes(own) ==
    IF own = NoSession THEN {"ok", "LockError"} ELSE {"LockError"}

\* self._dev.rpc.unlock(): the device releases the lock only for its owner.
UnlockOutcomes(own, s) ==
    IF own = s THEN {"ok", "UnlockError"} ELSE {"UnlockError"}

\* self._dev.rpc.edit_config(...)
EditOutcomes == {"ok", "EditConfigError"}

\* self._dev.rpc.commit()
CommitOutcomes == {"ok", "CommitError"}

\* self._dev.rpc.discard_config()
DiscardOutcomes == {"ok", "DiscardChangesError"}

\* --------------------------------------------------------- _lock / _unlock
\* _lock with the flag set before the RPC is known to have succeeded.
_lock_flag_first(lk, own, s, out) ==
    IF lk
    THEN Result(TRUE, own, << >>, "none")
    ELSE IF out = "ok"
         THEN Result(TRUE, s, << Rpc("lock", "", "ok") >>, "none")
         ELSE Result(TRUE, own, << Rpc("lock", "", out) >>,
                     "SessionLockedException")

\* _lock without the test of the flag: every call issues the lock RPC.
_lock_always_rpc(lk, own, s, out) ==
    IF out = "ok"
    THEN Result(TRUE, s, << Rpc("lock", "", "ok") >>, "none")
    ELSE Result(lk, own, << Rpc("lock", "", out) >>, "SessionLockedException")

\* _lock(): nothing when the flag is set; otherwise one lock RPC, the flag
\* set on success, XRLockError raised as SessionLockedException.
_lock(lk, own, s, out) ==
    IF lk
    THEN Result(TRUE, own, << >>, "none")
    ELSE IF out = "ok"
         THEN Result(TRUE, s, << Rpc("lock", "", "ok") >>, "none")
         ELSE Result(FALSE, own, << Rpc("lock", "", out) >>,
                     "SessionLockedException")

\* _unlock with the flag cleared before the RPC is known to have succeeded.
_unlock_flag_first(lk, own, s, out) ==
    IF ~lk
    THEN Result(FALSE, own, << >>, "none")
    ELSE IF out = "ok"
         THEN Result(FALSE, NoSession, << Rpc("unlock", "", "ok") >>, "none")
         ELSE Result(FALSE, own, << Rpc("unlock", "", out) >>,
                     "SessionLockedException")

\* _unlock(): nothing when the flag is clear; otherwise one unlock RPC, the
\* flag cleared on success, XRUnlockError raised as SessionLockedException.
_unlock(lk, own, s, out) ==
    IF ~lk
    THEN Result(FALSE, own, << >>, "none")
    ELSE IF out = "ok"
         THEN Result(FALSE, NoSession, << Rpc("unlock", "", "ok") >>, "none")
         ELSE Result(TRUE, own, << Rpc("unlock", "", out) >>,
                     "SessionLockedException")

\* ----------------------------------------------------------------- helpers
\* The number of RPCs named `name` with outcome "ok" in a call's RPC log.
CountOk(rpcs, name) ==
    Cardinality({i \in 1..Len(rpcs) : rpcs[i].rpc = name /\ rpcs[i].res = "ok"})

\* The number of RPCs named `name` in a call's RPC log, whatever the outcome.
CountRpc(rpcs, name) ==
    Cardinality({i \in 1..Len(rpcs) : rpcs[i].rpc = name})

\* The end of a method call by session s: the flag, the connection, the
\* device's lock and candidate take their new values and the call is logged.
Return(s, op, lk, conn, own, cand, rpcs, raised) ==
    /\ _locked' = [_locked EXCEPT ![s] = lk]
    /\ dev_connected' = [dev_connected EXCEPT ![s] = conn]
    /\ db_lock_owner' = own
    /\ db_candidate' = cand
    /\ nLockOk' = [nLockOk EXCEPT ![s] = @ + CountOk(rpcs, "lock")]
    /\ nUnlockOk' = [nUnlockOk EXCEPT ![s] = @ + CountOk(rpcs, "unlock")]
    /\ ncalls' = ncalls + 1
    /\ last' = [sess |-> s, op |-> op, rpcs |-> rpcs, raised |-> raised,
                lockedBefore |-> _locked[s], connectedBefore |-> dev_connected[s]]
    /\ prev' = last
    /\ UNCHANGED << _config_lock, reply, result >>

\* -------------------------------------------------------------------- Init
\* The log entry of a session that has made no call yet.
NoCall ==
    [sess |-> NoSession, op |-> "__init__", rpcs |-> << >>, raised |-> "none",
     lockedBefore |-> FALSE, connectedBefore |-> FALSE]

\* No reply tree under consideration.
NoReply == [path |-> "none"]

\* No getter has returned.
NoResult == [method |-> "none"]

\* __init__: the flag clear, no connection; config_lock is the caller's option.
Init ==
    /\ _locked = [s \in Sessions |-> FALSE]
    /\ _config_lock \in [Sessions -> BOOLEAN]
    /\ dev_connected = [s \in Sessions |-> FALSE]
    /\ db_lock_owner = NoSession
    /\ db_candidate = "none"
    /\ nLockOk = [s \in Sessions |-> 0]
    /\ nUnlockOk = [s \in Sessions |-> 0]
    /\ ncalls = 0
    /\ last = NoCall
    /\ prev = NoCall
    /\ reply = NoReply
    /\ result = NoResult

\* -------------------------------------------------------------- open/close
\* open() taking the lock under both policies.
OpenResult_always_lock(lk, own, s, cfg, c, out) ==
    IF c # "ok"
    THEN [conn |-> FALSE,
          r |-> Result(lk, own, << Rpc("connect", "", c) >>,
                       "ConnectionException")]
    ELSE LET l == _lock(lk, own, s, out)
         IN  [conn |-> TRUE,
              r |-> Result(l.locked, l.owner,
                           << Rpc("connect", "", "ok") >> \o l.rpcs,
                           l.raised)]

\* open() with an except clause that names ConnectError alone.
OpenResult_unmapped_connect(lk, own, s, cfg, c, out) ==
    IF c # "ok"
    THEN [conn |-> FALSE,
          r |-> Result(lk, own, << Rpc("connect", "", c) >>,
                       IF c = "ConnectError" THEN "ConnectionException" ELSE c)]
    ELSE IF cfg
         THEN LET l == _lock(lk, own, s, out)
              IN  [conn |-> TRUE,
                   r |-> Result(l.locked, l.owner,
                                << Rpc("connect", "", "ok") >> \o l.rpcs,
                                l.raised)]
         ELSE [conn |-> TRUE,
               r |-> Result(lk, own, << Rpc("connect", "", "ok") >>, "none")]

\* open(): self._dev.open(), whose connect errors are raised as
\* ConnectionException; then, under config_lock, _lock().
OpenResult(lk, own, s, cfg, c, out) ==
    IF c # "ok"
    THEN [conn |-> FALSE,
          r |-> Result(lk, own, << Rpc("connect", "", c) >>,
                       "ConnectionException")]
    ELSE IF cfg
         THEN LET l == _lock(lk, own, s, out)
              IN  [conn |-> TRUE,
                   r |-> Result(l.locked, l.owner,
                                << Rpc("connect", "", "ok") >> \o l.rpcs,
                                l.raised)]
         ELSE [conn |-> TRUE,
               r |-> Result(lk, own, << Rpc("connect", "", "ok") >>, "none")]

open(s) ==
    /\ ncalls < MaxCalls
    /\ ~dev_connected[s]
    /\ \E c \in ConnectOutcomes : \E out \in LockOutcomes(db_lock_owner) :
          LET o == OpenResult(_locked[s], db_lock_owner, s, _config_lock[s], c, out)
          IN  Return(s, "open", o.r.locked, o.conn, o.r.owner, db_candidate,
                     o.r.rpcs, o.r.raised)

\* close() that disconnects even when releasing the lock raised.
CloseResult_best_effort(lk, own, s, cfg, out) ==
    LET u == IF cfg THEN _unlock(lk, own, s, out)
                    ELSE Result(lk, own, << >>, "none")
    IN  [conn |-> FALSE,
         r |-> Result(u.locked, IF u.owner = s THEN NoSession ELSE u.owner,
                      u.rpcs \o << Rpc("disconnect", "", "ok") >>, u.raised)]

\* close(): under config_lock release the lock first, and when that raises
\* the connection is not torn down.  The device drops the lock of a session
\* whose connection ends (RFC 6241, 7.5); the driver's flag is not touched.
CloseResult(lk, own, s, cfg, out) ==
    LET u == IF cfg THEN _unlock(lk, own, s, out)
                    ELSE Result(lk, own, << >>, "none")
    IN  IF u.raised # "none"
        THEN [conn |-> TRUE, r |-> u]
        ELSE [conn |-> FALSE,
              r |-> Result(u.locked,
                           IF u.owner = s THEN NoSession ELSE u.owner,
                           u.rpcs \o << Rpc("disconnect", "", "ok") >>,
                           "none")]

close(s) ==
    /\ ncalls < MaxCalls
    /\ dev_connected[s]
    /\ \E out \in UnlockOutcomes(db_lock_owner, s) :
          LET c == CloseResult(_locked[s], db_lock_owner, s, _config_lock[s], out)
          IN  Return(s, "close", c.r.locked, c.conn, c.r.owner, db_candidate,
                     c.r.rpcs, c.r.raised)

\* --------------------------------------------------------- _load_candidate
\* Where the candidate text comes from: the inline config, a file that can
\* be read, a file that cannot (open(filename).read() raises IOError).
CandidateSources == {"config", "file", "unreadable_file"}

\* _load_candidate with the two exception kinds exchanged.
LoadResult_swapped(lk, own, cand, s, cfg, src, replace, lout, eout) ==
    IF src = "unreadable_file"
    THEN [cand |-> cand, r |-> Result(lk, own, << >>, "IOError")]
    ELSE LET l == IF ~cfg THEN _lock(lk, own, s, lout)
                          ELSE Result(lk, own, << >>, "none")
             operation == IF replace THEN "replace" ELSE "None"
         IN  IF l.raised # "none"
             THEN [cand |-> cand, r |-> l]
             ELSE IF eout = "ok"
                  THEN [cand |-> IF replace THEN "replace" ELSE "merge",
                        r |-> Result(l.locked, l.owner,
                                     l.rpcs \o << Rpc("edit_config", operation, "ok") >>,
                                     "none")]
                  ELSE [cand |-> cand,
                        r |-> Result(l.locked, l.owner,
                                     l.rpcs \o << Rpc("edit_config", operation, eout) >>,
                                     IF replace THEN "MergeConfigException"
                                                ELSE "ReplaceConfigException")]

\* The steps of _load_candidate after the file was read, as LoadResult has
\* them, with `lockstep` in the place of the lock step.
LoadSteps(lockstep, cand, replace, eout, release) ==
    LET operation == IF replace THEN "replace" ELSE "None"
    IN  IF lockstep.raised # "none"
        THEN [cand |-> cand, r |-> lockstep]
        ELSE IF eout = "ok"
             THEN [cand |-> IF replace THEN "replace" ELSE "merge",
                   r |-> Result(lockstep.locked, lockstep.owner,
                                lockstep.rpcs \o << Rpc("edit_config", operation, "ok") >>,
                                "none")]
             ELSE [cand |-> cand,
                   r |-> Result(release.locked, release.owner,
                                lockstep.rpcs \o << Rpc("edit_config", operation, eout) >>
                                    \o release.rpcs,
                                IF replace THEN "ReplaceConfigException"
                                           ELSE "MergeConfigException")]

\* _load_candidate that gives the lock back when the edit failed.
LoadResult_release_on_failure(lk, own, cand, s, cfg, src, replace, lout, eout) ==
    IF src = "unreadable_file"
    THEN [cand |-> cand, r |-> Result(lk, own, << >>, "IOError")]
    ELSE LET l == IF ~cfg THEN _lock(lk, own, s, lout)
                          ELSE Result(lk, own, << >>, "none")
             u == IF ~cfg THEN _unlock(l.locked, l.owner, s, "ok")
                          ELSE Result(l.locked, l.owner, << >>, "none")
         IN  LoadSteps(l, cand, replace, eout, u)

\* _load_candidate that takes the lock under both policies.
LoadResult_always_lock(lk, own, cand, s, cfg, src, replace, lout, eout) ==
    IF src = "unreadable_file"
    THEN [cand |-> cand, r |-> Result(lk, own, << >>, "IOError")]
    ELSE LET l == _lock(lk, own, s, lout)
         IN  LoadSteps(l, cand, replace, eout, Result(l.locked, l.owner, << >>, "none"))

\* _load_candidate that issues the edit before it takes the lock.
LoadResult_edit_first(lk, own, cand, s, cfg, src, replace, lout, eout) ==
    IF src = "unreadable_file"
    THEN [cand |-> cand, r |-> Result(lk, own, << >>, "IOError")]
    ELSE LET operation == IF replace THEN "replace" ELSE "None"
             l == IF ~cfg THEN _lock(lk, own, s, lout)
                          ELSE Result(lk, own, << >>, "none")
         IN  IF eout # "ok"
             THEN [cand |-> cand,
                   r |-> Result(lk, own, << Rpc("edit_config", operation, eout) >>,
                                IF replace THEN "ReplaceConfigException"
                                           ELSE "MergeConfigException")]
             ELSE [cand |-> IF replace THEN "replace" ELSE "merge",
                   r |-> Result(l.locked, l.owner,
                                << Rpc("edit_config", operation, "ok") >> \o l.rpcs,
                                l.raised)]

\* _load_candidate(filename, config, replace): read the file when one is
\* named; without config_lock take the lock; issue edit_config with
\* operation 'replace' or None; XREditConfigError is raised as
\* ReplaceConfigException or MergeConfigException.
LoadResult(lk, own, cand, s, cfg, src, replace, lout, eout) ==
    IF src = "unreadable_file"
    THEN [cand |-> cand, r |-> Result(lk, own, << >>, "IOError")]
    ELSE LET l == IF ~cfg THEN _lock(lk, own, s, lout)
                          ELSE Result(lk, own, << >>, "none")
             operation == IF replace THEN "replace" ELSE "None"
         IN  IF l.raised # "none"
             THEN [cand |-> cand, r |-> l]
             ELSE IF eout = "ok"
                  THEN [cand |-> IF replace THEN "replace" ELSE "merge",
                        r |-> Result(l.locked, l.owner,
                                     l.rpcs \o << Rpc("edit_config", operation, "ok") >>,
                                     "none")]
                  ELSE [cand |-> cand,
                        r |-> Result(l.locked, l.owner,
                                     l.rpcs \o << Rpc("edit_config", operation, eout) >>,
                                     IF replace THEN "ReplaceConfigException"
                                                ELSE "MergeConfigException")]

_load_candidate(s, op, replace) ==
    /\ ncalls < MaxCalls
    /\ dev_connected[s]
    /\ \E src \in CandidateSources :
       \E lout \in LockOutcomes(db_lock_owner) :
       \E eout \in EditOutcomes :
          LET e == LoadResult(_locked[s], db_lock_owner, db_candidate, s,
                              _config_lock[s], src, replace, lout, eout)
          IN  Return(s, op, e.r.locked, TRUE, e.r.owner, e.cand,
                     e.r.rpcs, e.r.raised)

\* load_merge_candidate: _load_candidate(filename, config, False)
load_merge_candidate(s) == _load_candidate(s, "load_merge_candidate", FALSE)

\* load_replace_candidate: _load_candidate(filename, config, True)
load_replace_candidate(s) == _load_candidate(s, "load_replace_candidate", TRUE)

\* ------------------------------------------- compare / commit / discard
\* compare_config(): the device's diff, passed through.
compare_config(s) ==
    /\ ncalls < MaxCalls
    /\ dev_connected[s]
    /\ Return(s, "compare_config", _locked[s], TRUE, db_lock_owner,
              db_candidate, << Rpc("compare_config", "", "ok") >>, "none")

\* commit_config / discard_config releasing the lock whatever the RPC's
\* outcome.
FinishResult_always_unlock(lk, own, cand, s, cfg, rpc, out, uout) ==
    LET u == IF ~cfg THEN _unlock(lk, own, s, uout)
                     ELSE Result(lk, own, << >>, "none")
    IN  [cand |-> IF out = "ok" THEN "none" ELSE cand,
         r |-> Result(u.locked, u.owner, << Rpc(rpc, "", out) >> \o u.rpcs,
                      IF out # "ok" THEN out ELSE u.raised)]

\* commit_config() and discard_config(): the RPC, whose error is raised as
\* it is; after its success, without config_lock, release the lock.
FinishResult(lk, own, cand, s, cfg, rpc, out, uout) ==
    IF out # "ok"
    THEN [cand |-> cand, r |-> Result(lk, own, << Rpc(rpc, "", out) >>, out)]
    ELSE LET u == IF ~cfg THEN _unlock(lk, own, s, uout)
                          ELSE Result(lk, own, << >>, "none")
         IN  [cand |-> "none",
              r |-> Result(u.locked, u.owner, << Rpc(rpc, "", "ok") >> \o u.rpcs,
                           u.raised)]

commit_config(s) ==
    /\ ncalls < MaxCalls
    /\ dev_connected[s]
    /\ \E out \in CommitOutcomes : \E uout \in UnlockOutcomes(db_lock_owner, s) :
          LET f == FinishResult(_locked[s], db_lock_owner, db_candidate, s,
                                _config_lock[s], "commit", out, uout)
          IN  Return(s, "commit_config", f.r.locked, TRUE, f.r.owner, f.cand,
                     f.r.rpcs, f.r.raised)

discard_config(s) ==
    /\ ncalls < MaxCalls
    /\ dev_connected[s]
    /\ \E out \in DiscardOutcomes : \E uout \in UnlockOutcomes(db_lock_owner, s) :
          LET f == FinishResult(_locked[s], db_lock_owner, db_candidate, s,
                                _config_lock[s], "discard_config", out, uout)
          IN  Return(s, "discard_config", f.r.locked, TRUE, f.r.owner, f.cand,
                     f.r.rpcs, f.r.raised)

\* ---------------------------------------------------------------- rollback
\* rollback() releasing the lock as commit and discard do.
RollbackResult_unlocks(lk, own, s, cfg, uout) ==
    IF ~cfg THEN _unlock(lk, own, s, uout) ELSE Result(lk, own, << >>, "none")

\* rollback(): return.
RollbackResult(lk, own, s, cfg, uout) ==
    Result(lk, own, << >>, "none")

rollback(s) ==
    /\ ncalls < MaxCalls
    /\ \E uout \in UnlockOutcomes(db_lock_owner, s) :
          LET r == RollbackResult(_locked[s], db_lock_owner, s, _config_lock[s], uout)
          IN  Return(s, "rollback", r.locked, dev_connected[s], r.owner,
                     db_candidate, r.rpcs, r.raised)

\* ------------------------------------------------- direct _lock / _unlock
\* _lock() called on its own on an open session.
AcquireLock(s) ==
    /\ ncalls < MaxCalls
    /\ dev_connected[s]
    /\ \E out \in LockOutcomes(db_lock_owner) :
          LET l == _lock(_locked[s], db_lock_owner, s, out)
          IN  Return(s, "_lock", l.locked, TRUE, l.owner, db_candidate,
                     l.rpcs, l.raised)

\* _unlock() called on its own on an open session.
ReleaseLock(s) ==
    /\ ncalls < MaxCalls
    /\ dev_connected[s]
    /\ \E out \in UnlockOutcomes(db_lock_owner, s) :
          LET u == _unlock(_locked[s], db_lock_owner, s, out)
          IN  Return(s, "_unlock", u.locked, TRUE, u.owner, db_candidate,
                     u.rpcs, u.raised)

\* ----------------------------------------------------------------- getters
\* self._dev.rpc.get(path): returns the reply tree.
GetOutcomes == {"ok"}

\* The paths the getters ask the device for.
InterfacesPath == "Cisco-IOS-XR-pfi-im-cmd-oper:interfaces/interface-xr/interface"

BgpPath == "Cisco-IOS-XR-ipv4-bgp-oper:bgp/instances/instance"

\* A getter that fetches its reply twice.
Getter_twice(s, op, path) ==
    /\ ncalls < MaxCalls
    /\ dev_connected[s]
    /\ \E out \in GetOutcomes :
          Return(s, op, _locked[s], TRUE, db_lock_owner, db_candidate,
                 << Rpc("get", path, out), Rpc("get", path, out) >>,
                 IF out = "ok" THEN "none" ELSE out)

\* A getter as the session sees it: one get RPC for `path`.  What the getter
\* makes of the reply is GetInterfaces, GetInterfacesCounters and
\* GetBgpNeighbors below.
Getter(s, op, path) ==
    /\ ncalls < MaxCalls
    /\ dev_connected[s]
    /\ \E out \in GetOutcomes :
          Return(s, op, _locked[s], TRUE, db_lock_owner, db_candidate,
                 << Rpc("get", path, out) >>,
                 IF out = "ok" THEN "none" ELSE out)

\* get_interfaces(): self._dev.rpc.get(...) on the interfaces path.
get_interfaces(s) == Getter(s, "get_interfaces", InterfacesPath)

\* get_interfaces_counters(): self._dev.rpc.get(...) on the interfaces path.
get_interfaces_counters(s) == Getter(s, "get_interfaces_counters", InterfacesPath)

\* get_bgp_neighbors(): self._dev.rpc.get(...) on the BGP path.
get_bgp_neighbors(s) == Getter(s, "get_bgp_neighbors", BgpPath)

\* get_facts(): reads the attribute self._dev.facts and calls
\* get_interfaces(), which issues its get RPC.
get_facts(s) == Getter(s, "get_facts", InterfacesPath)

\* ------------------------------------------------------------ python values
NoneVal == [type |-> "None"]

\* A str compared as a whole (names, state tokens).
Str(s) == [type |-> "str", val |-> s]

\* A str whose characters matter: the text of a number, or of anything else.
Text(chars) == [type |-> "text", chars |-> chars]

Dict(f) == [type |-> "dict", val |-> f]

List(seq) == [type |-> "list", val |-> seq]

\* isinstance(x, dict)
isinstance_dict(x) == x.type = "dict"

\* d.get(k) on a dict: the value, or None.
Get(d, k) == IF k \in DOMAIN d.val THEN d.val[k] ELSE NoneVal

\* x == 'literal'
PyEq(x, lit) == x.type = "str" /\ x.val = lit

\* The elements of a set, one after the other.
RECURSIVE SetToSeq(_)
SetToSeq(S) ==
    IF S = {} THEN << >>
    ELSE LET x == CHOOSE y \in S : TRUE IN << x >> \o SetToSeq(S \ {x})

\* What `for x in v` runs over: the items of a list, the keys of a dict.
Iter(v) ==
    IF v.type = "list" THEN v.val
    ELSE LET keys == SetToSeq(DOMAIN v.val)
         IN  [i \in 1..Len(keys) |-> Str(keys[i])]

\* acc[k] = v on a dict under construction.
Put(acc, k, v) == [x \in DOMAIN acc \cup {k} |-> IF x = k THEN v ELSE acc[x]]

\* What a getter hands back: a value, or the exception that ended it.
Returned(value) == [raised |-> "none", value |-> value]

Raised(exc) == [raised |-> exc, value |-> << >>]

\* ------------------------------------------------------------------ convert
Digits == << "0", "1", "2", "3", "4", "5", "6", "7", "8", "9" >>

DigitValue(c) == (CHOOSE i \in 1..Len(Digits) : Digits[i] = c) - 1

\* int(chars) succeeds: a non-empty run of digits.
IsNumeral(chars) ==
    /\ chars # << >>
    /\ \A i \in 1..Len(chars) : \E j \in 1..Len(Digits) : Digits[j] = chars[i]

RECURSIVE ParseInt(_)
ParseInt(chars) ==
    IF chars = << >> THEN 0
    ELSE ParseInt(SubSeq(chars, 1, Len(chars) - 1)) * 10
            + DigitValue(chars[Len(chars)])

\* napalm_base.helpers.convert(to, who, default): default for None and for a
\* value `to` rejects, the number otherwise (int and float agree on the
\* texts used here).
convert(to, who, default) ==
    IF who.type = "text" /\ IsNumeral(who.chars)
    THEN ParseInt(who.chars)
    ELSE default

\* ------------------------------------------------------------ get_interfaces
\* One entry of get_interfaces(): the record built for an interface node.
InterfaceRecord(interface, clock) ==
    [is_enabled |-> PyEq(Get(interface, "state"), "im-state-up"),
     is_up |-> PyEq(Get(interface, "line-state"), "im-state-up"),
     mac_address |-> Get(Get(interface, "mac-address"), "address"),
     description |-> Get(interface, "description"),
     speed |-> convert("int", Get(interface, "description"), 0) \div 1000,
     last_flapped |->
        clock - convert("float", Get(interface, "last-state-transition-time"), 0)]

\* The loop of get_interfaces(): every item but Null0 becomes an entry; an
\* item that is no dict has no .get and ends the call with AttributeError.
RECURSIVE InterfacesLoop(_, _, _)
InterfacesLoop(items, acc, clock) ==
    IF items = << >> THEN Returned(acc)
    ELSE LET interface == Head(items)
         IN  IF interface.type # "dict" THEN Raised("AttributeError")
             ELSE IF PyEq(Get(interface, "interface-name"), "Null0")
                  THEN InterfacesLoop(Tail(items), acc, clock)
                  ELSE InterfacesLoop(
                           Tail(items),
                           Put(acc, Get(interface, "interface-name").val,
                               InterfaceRecord(interface, clock)),
                           clock)

\* interfaces_oper.get('data').get('interfaces').get('interface-xr').get('interface')
InterfacesDetails(tree) ==
    Get(Get(Get(Get(tree, "data"), "interfaces"), "interface-xr"), "interface")

\* get_interfaces() from the reply on.
GetInterfaces(tree, clock) ==
    InterfacesLoop(Iter(InterfacesDetails(tree)), << >>, clock)

\* --------------------------------------------------- get_interfaces_counters
\* The counters of get_interfaces_counters(): the key of the output record
\* and the key of the statistics node it is read from, in source order.
CounterFields ==
    << << "tx_multicast_packets", "multicast-packets-sent" >>,
       << "tx_discards", "output-drops" >>,
       << "tx_octets", "bytes-sent" >>,
       << "tx_errors", "output-errors" >>,
       << "rx_octets", "bytes-received" >>,
       << "tx_unicast_packets", "packets-sent" >>,
       << "rx_errors", "input-errors" >>,
       << "tx_broadcast_packets", "broadcast-packets-sent" >>,
       << "rx_multicast_packets", "multicast-packets-received" >>,
       << "rx_broadcast_packets", "broadcast-packets-received" >>,
       << "rx_discards", "input-drops" >>,
       << "rx_unicast_packets", "packets-received" >> >>

\* The statistics key the output key `field` is read from.
CounterSource(field) ==
    LET i == CHOOSE j \in 1..Len(CounterFields) : CounterFields[j][1] = field
    IN  CounterFields[i][2]

CounterNames == {CounterFields[i][1] : i \in 1..Len(CounterFields)}

\* The record of counters with 0 for a counter that is not reported.
CounterRecord_default_zero(interface_stats) ==
    [f \in CounterNames |->
        convert("int", Get(interface_stats, CounterSource(f)), 0)]

\* The record of counters built for one interface: each counter converted to
\* int, -1 when it is missing.
CounterRecord(interface_stats) ==
    [f \in CounterNames |->
        convert("int", Get(interface_stats, CounterSource(f)), -1)]

\* The loop of get_interfaces_counters().
RECURSIVE CountersLoop(_, _)
CountersLoop(items, acc) ==
    IF items = << >> THEN Returned(acc)
    ELSE LET interface == Head(items)
         IN  IF interface.type # "dict" THEN Raised("AttributeError")
             ELSE IF PyEq(Get(interface, "interface-name"), "Null0")
                  THEN CountersLoop(Tail(items), acc)
                  ELSE CountersLoop(
                           Tail(items),
                           Put(acc, Get(interface, "interface-name").val,
                               CounterRecord(
                                   Get(Get(interface, "interface-statistics"),
                                       "full-interface-stats"))))

\* get_interfaces_counters() from the reply on.
GetInterfacesCounters(tree) ==
    CountersLoop(Iter(InterfacesDetails(tree)), << >>)

\* --------------------------------------------------------- get_bgp_neighbors
\* The entry built for one neighbor node.
NeighborDetails(neighbor) ==
    [local_as |-> convert("int", Get(neighbor, "local-as"), Str("")),
     remote_as |-> convert("int", Get(neighbor, "remote-as"), Str("")),
     remote_id |-> Get(neighbor, "router-id"),
     is_up |-> PyEq(Get(neighbor, "connection-state"), "bgp-st-established"),
     is_enabled |-> PyEq(Get(neighbor, "is-administratively-shut-down"), "false"),
     description |-> Get(neighbor, "description"),
     uptime |-> convert("int", Get(neighbor, "time-since-connection-last-dropped"),
                        Str("")),
     address_family |-> << >>]

\* The inner loop of get_bgp_neighbors(): the peers of one instance.
RECURSIVE NeighborsLoop(_, _)
NeighborsLoop(items, peers) ==
    IF items = << >> THEN Returned(peers)
    ELSE LET neighbor == Head(items)
         IN  IF neighbor.type # "dict" THEN Raised("AttributeError")
             ELSE NeighborsLoop(
                      Tail(items),
                      Put(peers, Get(neighbor, "neighbor-address").val,
                          NeighborDetails(neighbor)))

\* The neighbors of an instance as the inner loop gets them: wrapped in a
\* list when bgp_instances is a dict.  bgp_instances is the variable of that
\* name where the test is made, after the outer wrapping.
InstanceNeighbors(bgp_instances, instance_neighbors) ==
    IF isinstance_dict(bgp_instances)
    THEN List(<< instance_neighbors >>)
    ELSE instance_neighbors

\* The outer loop of get_bgp_neighbors().
RECURSIVE InstancesLoop(_, _, _)
InstancesLoop(items, acc, bgp_instances) ==
    IF items = << >> THEN Returned(acc)
    ELSE LET bgp_instance == Head(items)
         IN  IF bgp_instance.type # "dict" THEN Raised("AttributeError")
             ELSE LET instance_details ==
                          Get(Get(bgp_instance, "instance-active"), "default-vrf")
                      router_id ==
                          Get(Get(Get(instance_details, "global-process-info"),
                                  "vrf"), "router-id")
                      instance_neighbors ==
                          InstanceNeighbors(
                              bgp_instances,
                              Get(Get(instance_details, "neighbors"), "neighbor"))
                      peers == NeighborsLoop(Iter(instance_neighbors), << >>)
                  IN  IF peers.raised # "none" THEN peers
                      ELSE InstancesLoop(
                               Tail(items),
                               Put(acc, Get(bgp_instance, "instance-name").val,
                                   [router_id |-> router_id,
                                    peers |-> peers.value]),
                               bgp_instances)

\* bgp_oper.get('data').get('bgp').get('instances').get('instance')
BgpInstances(tree) ==
    Get(Get(Get(Get(tree, "data"), "bgp"), "instances"), "instance")

\* get_bgp_neighbors() from the reply on: a single instance is wrapped in a
\* list, then the loops run.
GetBgpNeighbors(tree) ==
    LET bgp_instances ==
            IF isinstance_dict(BgpInstances(tree))
            THEN List(<< BgpInstances(tree) >>)
            ELSE BgpInstances(tree)
    IN  InstancesLoop(Iter(bgp_instances), << >>, bgp_instances)

\* ------------------------------------------------------------- reply trees
\* k: v when the device reports v, nothing when it does not.
Optional(k, v) == IF v = NoneVal THEN << >> ELSE k :> v

\* The decimal text of n, 0 <= n < 100.
Numeral(n) ==
    IF n < 10 THEN << Digits[n + 1] >>
    ELSE << Digits[(n \div 10) + 1], Digits[(n % 10) + 1] >>

\* The keys of a full-interface-stats node that the counters are read from.
StatKeys == {CounterFields[i][2] : i \in 1..Len(CounterFields)}

\* Statistics nodes: every counter zero, none reported, each its own value,
\* and a node where some are missing, some zero and one is not a number.
StatsAllZero == [k \in StatKeys |-> Text(Numeral(0))]

StatsNone == << >>

StatsDistinct ==
    [k \in StatKeys |->
        Text(Numeral(CHOOSE i \in 1..Len(CounterFields) : CounterFields[i][2] = k))]

StatsMixed ==
    [k \in {"bytes-sent", "bytes-received", "input-errors", "output-drops"} |->
        IF k = "input-errors" THEN Text(<< "n", "a" >>) ELSE Text(Numeral(0))]

\* What the device may report of an interface besides its name.
InterfaceProfiles ==
    { [state |-> "im-state-up", line |-> "im-state-up",
       description |-> NoneVal,
       transition |-> Text(Numeral(5)), stats |-> StatsAllZero],
      [state |-> "im-state-admin-down", line |-> "im-state-up",
       description |-> Text(<< "2", "5", "0", "0" >>),
       transition |-> NoneVal, stats |-> StatsNone],
      [state |-> "im-state-up", line |-> "im-state-down",
       description |-> Text(<< "u", "p", "l", "i", "n", "k" >>),
       transition |-> Text(Numeral(42)), stats |-> StatsDistinct],
      [state |-> "im-state-down", line |-> "im-state-down",
       description |-> Text(<< "9", "9", "9" >>),
       transition |-> Text(Numeral(0)), stats |-> StatsMixed] }

InterfaceNames == {"Null0", "Gi0", "Gi1"}

\* An interface node of the reply.
InterfaceNode(name, p) ==
    Dict("interface-name" :> Str(name)
         @@ "state" :> Str(p.state)
         @@ "line-state" :> Str(p.line)
         @@ "mac-address" :> Dict("address" :> Str("02:00:00:00:00:01"))
         @@ Optional("description", p.description)
         @@ Optional("last-state-transition-time", p.transition)
         @@ "interface-statistics" :>
                Dict("full-interface-stats" :> Dict(p.stats)))

InterfaceNodes ==
    {InterfaceNode(n, p) : n \in InterfaceNames, p \in InterfaceProfiles}

\* The lists of one to n nodes no two of which have the same value under k.
KeyedLists(Nodes, k, n) ==
    {seq \in UNION {[1..len -> Nodes] : len \in 1..n} :
        \A i, j \in 1..Len(seq) : i # j => Get(seq[i], k) # Get(seq[j], k)}

\* What a collection field of a reply may hold: a list of nodes, or the
\* node itself when there is exactly one.
Collections(Nodes, k, n) ==
    {List(seq) : seq \in KeyedLists(Nodes, k, n)} \cup Nodes

\* The reply to get(InterfacesPath) around its interface field.
InterfacesTree(interface) ==
    Dict("data" :> Dict("interfaces" :>
        Dict("interface-xr" :> Dict("interface" :> interface))))

\* time.time() at the call.
Clocks == {1000, 2000}

InterfacesReplies ==
    {[path |-> InterfacesPath, tree |-> InterfacesTree(c), clock |-> now] :
        c \in Collections(InterfaceNodes, "interface-name",
                          Cardinality(InterfaceNames)),
        now \in Clocks}

NeighborAddresses == {"10.0.0.1", "10.0.0.2"}

\* is-administratively-shut-down as reported: a string, or nothing.
ShutValues == {Str("false"), Str("true"), Str(""), NoneVal}

\* A neighbor node of the reply.
NeighborNode(addr, shut) ==
    Dict("neighbor-address" :> Str(addr)
         @@ "local-as" :> Text(Numeral(65))
         @@ "remote-as" :> Text(Numeral(IF addr = "10.0.0.1" THEN 65 ELSE 66))
         @@ "router-id" :> Str(addr)
         @@ "connection-state" :>
                Str(IF addr = "10.0.0.1" THEN "bgp-st-established"
                    ELSE "bgp-st-idle")
         @@ Optional("is-administratively-shut-down", shut)
         @@ "time-since-connection-last-dropped" :> Text(Numeral(7)))

NeighborNodes ==
    {NeighborNode(a, sh) : a \in NeighborAddresses, sh \in ShutValues}

InstanceNames == {"default", "core"}

\* An instance node of the reply around its neighbor field.
InstanceNode(name, neighbor) ==
    Dict("instance-name" :> Str(name)
         @@ "instance-active" :> Dict("default-vrf" :>
                Dict("global-process-info" :>
                         Dict("vrf" :> Dict("router-id" :> Str("192.0.2.1")))
                     @@ "neighbors" :> Dict("neighbor" :> neighbor))))

InstanceNodes ==
    {InstanceNode(n, c) :
        n \in InstanceNames,
        c \in Collections(NeighborNodes, "neighbor-address",
                          Cardinality(NeighborAddresses))}

\* The reply to get(BgpPath) around its instance field.
BgpTree(instance) ==
    Dict("data" :> Dict("bgp" :> Dict("instances" :>
        Dict("instance" :> instance))))

BgpReplies ==
    {[path |-> BgpPath, tree |-> BgpTree(c), clock |-> now] :
        c \in Collections(InstanceNodes, "instance-name",
                          Cardinality(InstanceNames)),
        now \in {CHOOSE first \in Clocks : TRUE}}

\* ------------------------------------------------- the getters on a reply
\* A getter returned r for the reply under consideration.
Normalized(method, r) ==
    /\ result = NoResult
    /\ result' = [method |-> method, raised |-> r.raised, value |-> r.value]
    /\ UNCHANGED << _locked, _config_lock, dev_connected, db_lock_owner,
                    db_candidate, nLockOk, nUnlockOk, ncalls, last, prev,
                    reply >>

\* get_interfaces() after its get RPC answered `reply`.
NormalizeInterfaces ==
    /\ reply.path = InterfacesPath
    /\ Normalized("get_interfaces", GetInterfaces(reply.tree, reply.clock))

\* get_interfaces_counters() after its get RPC answered `reply`.
NormalizeInterfacesCounters ==
    /\ reply.path = InterfacesPath
    /\ Normalized("get_interfaces_counters", GetInterfacesCounters(reply.tree))

\* get_bgp_neighbors() after its get RPC answered `reply`.
NormalizeBgpNeighbors ==
    /\ reply.path = BgpPath
    /\ Normalized("get_bgp_neighbors", GetBgpNeighbors(reply.tree))

\* ---------------------------------------------------------- specifications
\* The public operations of the driver, called in any order by any session.
Next ==
    \E s \in Sessions :
        \/ open(s)
        \/ close(s)
        \/ load_merge_candidate(s)
        \/ load_replace_candidate(s)
        \/ compare_config(s)
        \/ commit_config(s)
        \/ discard_config(s)
        \/ rollback(s)
        \/ get_facts(s)
        \/ get_interfaces(s)
        \/ get_interfaces_counters(s)
        \/ get_bgp_neighbors(s)

Spec == Init /\ [][Next]_vars

\* The public operations together with direct calls of _lock and _unlock.
NextLockApi ==
    \/ Next
    \/ \E s \in Sessions : AcquireLock(s) \/ ReleaseLock(s)

SpecLockApi == Init /\ [][NextLockApi]_vars

\* A connected session whose get RPC answered any of the replies.
InitNorm ==
    /\ _locked = [s \in Sessions |-> FALSE]
    /\ _config_lock = [s \in Sessions |-> FALSE]
    /\ dev_connected = [s \in Sessions |-> s = 1]
    /\ db_lock_owner = NoSession
    /\ db_candidate = "none"
    /\ nLockOk = [s \in Sessions |-> 0]
    /\ nUnlockOk = [s \in Sessions |-> 0]
    /\ ncalls = 0
    /\ last = NoCall
    /\ prev = NoCall
    /\ reply \in InterfacesReplies \cup BgpReplies
    /\ result = NoResult

NextNorm ==
    \/ NormalizeInterfaces
    \/ NormalizeInterfacesCounters
    \/ NormalizeBgpNeighbors

\* The getters as functions of the reply.
SpecNorm == InitNorm /\ [][NextNorm]_vars
\* ------------------------------------------------------- reading the log
Loads == {"load_merge_candidate", "load_replace_candidate"}

Finishes == {"commit_config", "discard_config"}

\* The call just made was method `op`.
Called(op) == last.sess # NoSession /\ last.op = op

\* The call just made issued an RPC named `name` with an outcome other
\* than "ok".
FailedRpc(name) ==
    \E i \in 1..Len(last.rpcs) :
        last.rpcs[i].rpc = name /\ last.rpcs[i].res # "ok"

\* ------------------------------------------------------------------ C1
\* C1: in every reachable state and for every session, the flag _locked is
\* true exactly when the lock RPCs that succeeded outnumber the unlock RPCs
\* that succeeded by one, and that difference is always 0 or 1.
C1_FlagMatchesRpcBalance ==
    \A s \in Sessions :
        /\ nLockOk[s] - nUnlockOk[s] \in {0, 1}
        /\ _locked[s] <=> (nLockOk[s] - nUnlockOk[s] = 1)

\* A session that locked, unlocked and locked again.
C1_Witness ==
    \E s \in Sessions : _locked[s] /\ nLockOk[s] = 2 /\ nUnlockOk[s] = 1

\* ------------------------------------------------------------------ C2
\* C2 as stated: two _lock() calls in a row by a session whose flag was
\* clear issue exactly one lock RPC between them, and two _unlock() calls in
\* a row by a session whose flag was set issue exactly one unlock RPC,
\* whatever the outcome of the first call.
C2_OneRpcWhateverOutcome ==
    /\ (/\ Called("_lock") /\ prev.op = "_lock" /\ prev.sess = last.sess
        /\ ~prev.lockedBefore)
       => CountRpc(prev.rpcs, "lock") + CountRpc(last.rpcs, "lock") = 1
    /\ (/\ Called("_unlock") /\ prev.op = "_unlock" /\ prev.sess = last.sess
        /\ prev.lockedBefore)
       => CountRpc(prev.rpcs, "unlock") + CountRpc(last.rpcs, "unlock") = 1

\* C2 (amended): two _lock() calls in a row by a session whose flag was clear
\* issue exactly one lock RPC when the first call succeeds, and two when the
\* first call raises (the second call tries again); the same holds of two
\* _unlock() calls in a row by a session whose flag was set.
C2_OneRpcAfterSuccess ==
    /\ (/\ Called("_lock") /\ prev.op = "_lock" /\ prev.sess = last.sess
        /\ ~prev.lockedBefore)
       => /\ CountRpc(prev.rpcs, "lock") = 1
          /\ CountRpc(last.rpcs, "lock") =
                IF prev.raised = "none" THEN 0 ELSE 1
    /\ (/\ Called("_unlock") /\ prev.op = "_unlock" /\ prev.sess = last.sess
        /\ prev.lockedBefore)
       => /\ CountRpc(prev.rpcs, "unlock") = 1
          /\ CountRpc(last.rpcs, "unlock") =
                IF prev.raised = "none" THEN 0 ELSE 1

\* The second of two _lock() calls in a row, the first of which took the lock.
C2_Witness ==
    /\ Called("_lock") /\ prev.op = "_lock" /\ prev.sess = last.sess
    /\ ~prev.lockedBefore /\ prev.raised = "none"
    /\ last.rpcs = << >> /\ _locked[last.sess]

\* ------------------------------------------------------------------ C3
\* C3 as stated: without config_lock, every load call issues the lock RPC
\* iff the flag was clear when it started, and every commit or discard call
\* issues the unlock RPC iff the flag was set when it started.  (A load call
\* that could not read its file is left aside here: it never reaches the
\* device.)
C3_EveryCall ==
    (last.sess # NoSession /\ ~_config_lock[last.sess]) =>
        /\ (last.op \in Loads /\ last.raised # "IOError") =>
              (CountRpc(last.rpcs, "lock") = 1 <=> ~last.lockedBefore)
        /\ last.op \in Finishes =>
              (CountRpc(last.rpcs, "unlock") = 1 <=> last.lockedBefore)

\* C3 (amended): without config_lock, every load call that obtained its
\* candidate text issues exactly one lock RPC when the flag was clear and
\* none when it was set; every commit or discard call whose own RPC
\* succeeded issues exactly one unlock RPC when the flag was set and none
\* when it was clear, alike for commit and discard; a commit or discard
\* call whose own RPC failed issues no unlock RPC.
C3_LazyLocking ==
    (last.sess # NoSession /\ ~_config_lock[last.sess]) =>
        /\ (last.op \in Loads /\ last.raised # "IOError") =>
              CountRpc(last.rpcs, "lock") = IF last.lockedBefore THEN 0 ELSE 1
        /\ (last.op \in Finishes /\ last.rpcs[1].res = "ok") =>
              CountRpc(last.rpcs, "unlock") = IF last.lockedBefore THEN 1 ELSE 0
        /\ (last.op \in Finishes /\ last.rpcs[1].res # "ok") =>
              CountRpc(last.rpcs, "unlock") = 0

\* A discard without config_lock that released the lock a load had taken.
C3_Witness ==
    /\ Called("discard_config") /\ ~_config_lock[last.sess]
    /\ last.lockedBefore /\ ~_locked[last.sess]
    /\ prev.op \in Loads /\ prev.sess = last.sess /\ ~prev.lockedBefore
    /\ CountOk(prev.rpcs, "lock") = 1

\* ------------------------------------------------------------------ C4
\* C4: no session is ever closed with its flag _locked set; in particular a
\* close() that tore the connection down leaves the flag clear.
C4_NeverClosedWhileLocked ==
    \A s \in Sessions : ~dev_connected[s] => ~_locked[s]

\* ------------------------------------------------------------------ C5
\* C5: an open() that connected issues, under config_lock, exactly one lock
\* RPC right after the connect; when that RPC fails the call raises
\* SessionLockedException and leaves the session connected with the flag
\* clear.  Without config_lock open() issues no lock RPC.
C5_OpenLocksEagerly ==
    (Called("open") /\ last.rpcs[1].res = "ok") =>
        IF _config_lock[last.sess]
        THEN /\ Len(last.rpcs) = 2
             /\ last.rpcs[2].rpc = "lock"
             /\ last.rpcs[2].res = "ok" =>
                   last.raised = "none" /\ _locked[last.sess]
             /\ last.rpcs[2].res # "ok" =>
                   /\ last.raised = "SessionLockedException"
                   /\ dev_connected[last.sess]
                   /\ ~_locked[last.sess]
        ELSE /\ CountRpc(last.rpcs, "lock") = 0
             /\ last.raised = "none"

\* An open() under config_lock whose lock RPC failed.
C5_Witness ==
    /\ Called("open") /\ _config_lock[last.sess]
    /\ last.raised = "SessionLockedException"
    /\ dev_connected[last.sess] /\ ~_locked[last.sess]

\* ------------------------------------------------------------------ C6
\* C6: at most one session has its flag _locked set, and a _lock() issued
\* while another session holds the device's lock raises
\* SessionLockedException after one lock RPC and leaves the flag clear.
C6_MutualExclusion ==
    /\ \A s, t \in Sessions : (s # t /\ _locked[s]) => ~_locked[t]
    /\ (last.sess # NoSession /\ FailedRpc("lock")) =>
          /\ CountRpc(last.rpcs, "lock") = 1
          /\ last.raised = "SessionLockedException"
          /\ ~_locked[last.sess]

\* ------------------------------------------------------------------ C7
\* C7: an edit_config failure surfaces as ReplaceConfigException from
\* load_replace_candidate and as MergeConfigException from
\* load_merge_candidate, with and without config_lock.
C7_EditFailureByMode ==
    (last.sess # NoSession /\ FailedRpc("edit_config")) =>
        /\ last.op = "load_replace_candidate" =>
              last.raised = "ReplaceConfigException"
        /\ last.op = "load_merge_candidate" =>
              last.raised = "MergeConfigException"

\* A replace whose edit failed right after a merge whose edit failed, by
\* sessions of both policies.
C7_Witness ==
    /\ Called("load_replace_candidate") /\ FailedRpc("edit_config")
    /\ prev.op = "load_merge_candidate"
    /\ prev.raised = "MergeConfigException"
    /\ _config_lock[last.sess] /\ ~_config_lock[prev.sess]

\* ------------------------------------------------------------------ C8
\* C8: a call in which the lock RPC failed raises SessionLockedException and
\* leaves the flag clear, as it was; a call in which the unlock RPC failed
\* raises SessionLockedException and leaves the flag set, as it was.
C8_LockFailureKeepsFlag ==
    last.sess # NoSession =>
        /\ FailedRpc("lock") =>
              /\ last.raised = "SessionLockedException"
              /\ ~last.lockedBefore /\ ~_locked[last.sess]
        /\ FailedRpc("unlock") =>
              /\ last.raised = "SessionLockedException"
              /\ last.lockedBefore /\ _locked[last.sess]

\* A commit that succeeded and whose unlock RPC then failed.
C8_Witness ==
    /\ Called("commit_config") /\ FailedRpc("unlock")
    /\ last.raised = "SessionLockedException" /\ _locked[last.sess]

C10_RollbackNoEffect ==
    [][ (last'.op = "rollback" /\ ncalls' # ncalls) =>
            /\ UNCHANGED << _locked, _config_lock, dev_connected,
                            db_lock_owner, db_candidate, nLockOk, nUnlockOk >>
            /\ last'.rpcs = << >>
            /\ last'.raised = "none" ]_vars

\* A rollback() made without config_lock with the lock held and a candidate
\* staged, all of which it left in place.
C10_Witness ==
    /\ Called("rollback") /\ ~_config_lock[last.sess]
    /\ _locked[last.sess] /\ db_lock_owner = last.sess
    /\ db_candidate = "replace" /\ prev.op = "load_replace_candidate"

\* ------------------------------------------------------------------ C15
\* C15: a close() under config_lock with the flag set issues the unlock RPC
\* first; after its success it issues the disconnect and the session is
\* closed with the flag clear; after its failure the call raises
\* SessionLockedException, issues no disconnect and leaves the session
\* connected with the flag set.  Without config_lock, or with the flag clear,
\* close() issues the disconnect alone.
C15_CloseUnlocksFirst ==
    Called("close") =>
        IF _config_lock[last.sess] /\ last.lockedBefore
        THEN /\ last.rpcs[1].rpc = "unlock"
             /\ last.rpcs[1].res = "ok" =>
                   /\ Len(last.rpcs) = 2
                   /\ last.rpcs[2].rpc = "disconnect"
                   /\ last.raised = "none"
                   /\ ~dev_connected[last.sess] /\ ~_locked[last.sess]
             /\ last.rpcs[1].res # "ok" =>
                   /\ Len(last.rpcs) = 1
                   /\ last.raised = "SessionLockedException"
                   /\ dev_connected[last.sess] /\ _locked[last.sess]
        ELSE /\ last.rpcs = << Rpc("disconnect", "", "ok") >>
             /\ last.raised = "none"
             /\ ~dev_connected[last.sess]

\* A close() under config_lock whose unlock RPC failed.
C15_Witness ==
    /\ Called("close") /\ _config_lock[last.sess] /\ FailedRpc("unlock")
    /\ dev_connected[last.sess] /\ _locked[last.sess]

\* ------------------------------------------------------------------ C16
\* C16: in a call of a session without config_lock, an unlock RPC comes
\* right after a commit or discard RPC that succeeded and nowhere else; a
\* call whose edit failed issues no unlock RPC and leaves the flag set; a
\* call whose commit or discard failed issues no unlock RPC and leaves the
\* flag as it was.
C16_UnlockOnlyAfterSuccess ==
    (last.sess # NoSession /\ ~_config_lock[last.sess]) =>
        /\ \A i \in 1..Len(last.rpcs) :
              last.rpcs[i].rpc = "unlock" =>
                  /\ i > 1
                  /\ last.rpcs[i - 1].rpc \in {"commit", "discard_config"}
                  /\ last.rpcs[i - 1].res = "ok"
        /\ FailedRpc("edit_config") =>
              CountRpc(last.rpcs, "unlock") = 0 /\ _locked[last.sess]
        /\ (FailedRpc("commit") \/ FailedRpc("discard_config")) =>
              /\ CountRpc(last.rpcs, "unlock") = 0
              /\ _locked[last.sess] = last.lockedBefore

\* A load without config_lock that took the lock and whose edit then failed.
C16_Witness ==
    /\ last.sess # NoSession /\ ~_config_lock[last.sess]
    /\ last.op \in Loads /\ FailedRpc("edit_config")
    /\ ~last.lockedBefore /\ _locked[last.sess]

\* ------------------------------------------------------------------ C17
\* C17: in a load call of a session without config_lock the lock RPC comes
\* before the edit RPC, a load that found the flag clear and issued an edit
\* issued a successful lock RPC first, and a load whose lock RPC failed
\* issues no edit RPC and raises SessionLockedException.
C17_LockBeforeEdit ==
    (last.sess # NoSession /\ ~_config_lock[last.sess] /\ last.op \in Loads) =>
        /\ \A i, j \in 1..Len(last.rpcs) :
              (last.rpcs[i].rpc = "lock" /\ last.rpcs[j].rpc = "edit_config")
                  => i < j
        /\ (~last.lockedBefore /\ CountRpc(last.rpcs, "edit_config") > 0) =>
              last.rpcs[1] = Rpc("lock", "", "ok")
        /\ FailedRpc("lock") =>
              /\ CountRpc(last.rpcs, "edit_config") = 0
              /\ last.raised = "SessionLockedException"

\* A load without config_lock whose lock RPC failed.
C17_Witness ==
    /\ Called("load_replace_candidate") /\ ~_config_lock[last.sess]
    /\ last.rpcs = << Rpc("lock", "", "LockError") >>
    /\ last.raised = "SessionLockedException"

\* ------------------------------------------------------------------ C18
\* C18: in a session with config_lock, a lock RPC is issued by open() alone
\* and an unlock RPC by close() alone; load, compare, commit, discard and
\* rollback calls issue neither and leave the flag as it was.
C18_EagerLockAroundSession ==
    (last.sess # NoSession /\ _config_lock[last.sess]) =>
        /\ CountRpc(last.rpcs, "lock") > 0 => last.op = "open"
        /\ CountRpc(last.rpcs, "unlock") > 0 => last.op = "close"
        /\ last.op \in Loads \cup Finishes \cup {"compare_config", "rollback"} =>
              _locked[last.sess] = last.lockedBefore

\* A load under config_lock whose edit failed, by a session that holds no
\* lock because the lock RPC of its open() had failed.
C18_Witness ==
    /\ Called("load_merge_candidate") /\ _config_lock[last.sess]
    /\ FailedRpc("edit_config") /\ ~_locked[last.sess]
    /\ prev.op = "open" /\ prev.sess = last.sess
    /\ prev.raised = "SessionLockedException"

\* ------------------------------------------------------------------ C19
\* The public operations C19 names.
PublicOps ==
    {"open", "close", "compare_config", "get_facts", "get_interfaces",
     "get_interfaces_counters", "get_bgp_neighbors"} \cup Loads \cup Finishes

\* C19 as stated: every call of a public operation issues exactly one RPC.
C19_ExactlyOneRpc ==
    (last.sess # NoSession /\ last.op \in PublicOps) => Len(last.rpcs) = 1

\* C19 (amended): the RPCs of a call are issued one after the other, each
\* after the one before it succeeded, at most two per call.  compare_config
\* and the getters issue exactly one.  open() issues the connect, followed
\* under config_lock by one lock RPC.  close() issues the disconnect,
\* preceded under config_lock with the flag set by one unlock RPC.  A load
\* issues one edit RPC, preceded without config_lock and with the flag clear
\* by one lock RPC, and nothing when its file cannot be read.  commit and
\* discard issue their RPC, followed without config_lock and with the flag
\* set by one unlock RPC.  An RPC that fails is the last of its call.
C19_RpcsPerCall ==
    (last.sess # NoSession /\ last.op \in PublicOps) =>
        LET n == Len(last.rpcs)
            lazy == ~_config_lock[last.sess]
        IN  /\ n <= 2
            /\ \A i \in 1..n : last.rpcs[i].res # "ok" => i = n
            /\ last.op \in {"compare_config", "get_facts", "get_interfaces",
                            "get_interfaces_counters", "get_bgp_neighbors"}
                  => n = 1
            /\ last.op = "open" =>
                  /\ last.rpcs[1].rpc = "connect"
                  /\ n = IF ~lazy /\ last.rpcs[1].res = "ok" /\ ~last.lockedBefore
                         THEN 2 ELSE 1
                  /\ n = 2 => last.rpcs[2].rpc = "lock"
            /\ last.op = "close" =>
                  /\ last.rpcs[1].rpc =
                        IF ~lazy /\ last.lockedBefore THEN "unlock"
                                                      ELSE "disconnect"
                  /\ n = 2 => last.rpcs[2].rpc = "disconnect"
                  /\ n = 1 <=> (last.rpcs[1].rpc = "disconnect"
                                \/ last.rpcs[1].res # "ok")
            /\ last.op \in Loads =>
                  IF last.raised = "IOError" THEN n = 0
                  ELSE /\ last.rpcs[1].rpc =
                             IF lazy /\ ~last.lockedBefore THEN "lock"
                                                           ELSE "edit_config"
                       /\ n = 2 => last.rpcs[2].rpc = "edit_config"
                       /\ n = 1 <=> (last.rpcs[1].rpc = "edit_config"
                                     \/ last.rpcs[1].res # "ok")
            /\ last.op \in Finishes =>
                  /\ last.rpcs[1].rpc =
                        IF last.op = "commit_config" THEN "commit"
                                                     ELSE "discard_config"
                  /\ n = IF lazy /\ last.lockedBefore /\ last.rpcs[1].res = "ok"
                         THEN 2 ELSE 1
                  /\ n = 2 => last.rpcs[2].rpc = "unlock"

\* A commit without config_lock that issued the commit and then the unlock,
\* right after a getter that issued its one get.
C19_Witness ==
    /\ Called("commit_config") /\ Len(last.rpcs) = 2
    /\ last.rpcs[2] = Rpc("unlock", "", "ok")
    /\ prev.op = "get_facts" /\ Len(prev.rpcs) = 1

\* ------------------------------------------------------------------ C20
\* C20: every call that issued an edit RPC was made by a session whose flag
\* _locked was set when the edit was issued (the edit does not change the
\* flag, so it is the flag the call leaves).
C20_EditOnlyWhileLocked ==
    (last.sess # NoSession /\ CountRpc(last.rpcs, "edit_config") > 0) =>
        _locked[last.sess]

\* ------------------------------------------------------- normalizer claims
\* A collection field as the sequence it stands for: a single node is the
\* one-element list of that node.
AsList(v) == IF isinstance_dict(v) THEN List(<< v >>) ELSE v

Range(seq) == {seq[i] : i \in 1..Len(seq)}

\* The interface nodes of the reply under consideration.
InputInterfaces == Range(AsList(InterfacesDetails(reply.tree)).val)

\* The instance nodes of the reply under consideration.
InputInstances == Range(AsList(BgpInstances(reply.tree)).val)

\* The neighbor nodes of an instance node.
InputNeighbors(instance) ==
    Range(AsList(Get(Get(Get(Get(instance, "instance-active"), "default-vrf"),
                         "neighbors"), "neighbor")).val)

\* The reply under consideration with every collection an explicit list.
ExplicitTree ==
    IF reply.path = InterfacesPath
    THEN InterfacesTree(AsList(InterfacesDetails(reply.tree)))
    ELSE LET instances == AsList(BgpInstances(reply.tree)).val
         IN  BgpTree(List(
                 [i \in 1..Len(instances) |->
                     InstanceNode(
                         Get(instances[i], "instance-name").val,
                         AsList(Get(Get(Get(Get(instances[i], "instance-active"),
                                            "default-vrf"),
                                        "neighbors"), "neighbor")))]))

\* Some collection of the reply under consideration is a single node.
HasSingleNode == ExplicitTree # reply.tree

\* What the getter that returned makes of a tree.
GetterOn(tree) ==
    CASE result.method = "get_interfaces" -> GetInterfaces(tree, reply.clock)
      [] result.method = "get_interfaces_counters" -> GetInterfacesCounters(tree)
      [] result.method = "get_bgp_neighbors" -> GetBgpNeighbors(tree)

\* C11: a getter given a reply in which a collection (the interfaces, the
\* BGP instances, the neighbors of an instance) is a single node returns
\* the records it returns for the same reply with that node in an explicit
\* list, and returns them rather than raising.
C11_SingleNodeAsCollection ==
    (result # NoResult /\ HasSingleNode) =>
        /\ result.raised = "none"
        /\ result.value = GetterOn(ExplicitTree).value

\* C12: get_interfaces() and get_interfaces_counters() return an entry for
\* every interface of the reply but Null0, and none for Null0, wherever it
\* stands in the collection.
C12_Null0Filtered ==
    result.method \in {"get_interfaces", "get_interfaces_counters"} =>
        /\ result.raised = "none"
        /\ DOMAIN result.value =
              {Get(n, "interface-name").val : n \in InputInterfaces} \ {"Null0"}

\* The statistics node of the interface called name in the reply.
InputStats(name) ==
    LET n == CHOOSE x \in InputInterfaces : Get(x, "interface-name") = Str(name)
    IN  Get(Get(n, "interface-statistics"), "full-interface-stats")

\* Every record get_interfaces_counters() returned gives -1 for a counter
\* missing from the statistics node and 0 for a counter reported as 0.
CountersDefaulted ==
    \A name \in DOMAIN result.value :
        \A f \in DOMAIN result.value[name] :
            LET reported == Get(InputStats(name), CounterSource(f))
            IN  /\ reported = NoneVal => result.value[name][f] = -1
                /\ reported = Text(<< "0" >>) => result.value[name][f] = 0

\* C13 as stated: the records of get_interfaces_counters() have exactly
\* eleven counters, -1 for a missing one and 0 for one reported as 0.
C13_ElevenCounters ==
    (result.method = "get_interfaces_counters" /\ result.raised = "none") =>
        /\ CountersDefaulted
        /\ \A name \in DOMAIN result.value :
              Cardinality(DOMAIN result.value[name]) = 11

\* C13: the records of get_interfaces_counters() have exactly twelve
\* counters (unicast, multicast and broadcast packets, octets, errors and
\* discards, each received and sent), -1 for a counter missing from the
\* statistics node and 0 for a counter reported as 0.
C13_TwelveCounters ==
    (result.method = "get_interfaces_counters" /\ result.raised = "none") =>
        /\ CountersDefaulted
        /\ \A name \in DOMAIN result.value :
              /\ Cardinality(DOMAIN result.value[name]) = 12
              /\ DOMAIN result.value[name] =
                    {d \o "_" \o k :
                        d \in {"rx", "tx"},
                        k \in {"unicast_packets", "multicast_packets",
                               "broadcast_packets", "octets", "errors",
                               "discards"}}

\* get_interfaces_counters() returned a record for an interface some of
\* whose counters are missing and some reported as 0.
C13_Witness ==
    /\ result.method = "get_interfaces_counters"
    /\ result.raised = "none"
    /\ \E name \in DOMAIN result.value :
          /\ \E f \in CounterNames :
                /\ Get(InputStats(name), CounterSource(f)) = NoneVal
                /\ result.value[name][f] = -1
          /\ \E f \in CounterNames :
                /\ Get(InputStats(name), CounterSource(f)) = Text(<< "0" >>)
                /\ result.value[name][f] = 0

\* C14: get_bgp_neighbors() returns, for every neighbor of the reply, an
\* entry whose is_enabled is a boolean, TRUE when the neighbor's
\* is-administratively-shut-down is the string "false" and FALSE for any
\* other value and for none.
C14_EnabledIffNotShut ==
    result.method = "get_bgp_neighbors" =>
        /\ result.raised = "none"
        /\ \A i \in InputInstances :
              \A n \in InputNeighbors(i) :
                 LET peers == result.value[Get(i, "instance-name").val].peers
                     addr == Get(n, "neighbor-address").val
                 IN  /\ addr \in DOMAIN peers
                     /\ peers[addr].is_enabled \in BOOLEAN
                     /\ peers[addr].is_enabled =
                           (Get(n, "is-administratively-shut-down") = Str("false"))

====
